---- MODULE Spec2Model ----
(***************************************************************************)
(* prometheus-neato-exporter (src/main.go): the bot selector getBots, the  *)
(* startup sequence of main, and the collector loop with the three gauge   *)
(* vectors it writes.                                                      *)
(***************************************************************************)
EXTENDS Integers, Sequences, FiniteSets, TLC

VARIABLES
    flagToken,     \* *flagToken: the -t flag
    flagBots,      \* *flagBots: the -b flag, a sequence of characters
    pc,            \* position of main
    bots,          \* main's `bots`: [isNil, list]
    botsErr,       \* the error getBots returned ("none" when nil)
    allRobots,     \* main's `allRobots`
    robots,        \* main's `robots`, the collector's argument
    k,             \* position of the `for _, n := range bots` loop of main
    checkedIdx,    \* the indices n that passed the test of line 182
    registered,    \* gauge families registered so far
    cpc,           \* position of the collector goroutine
    idx,           \* position of the `for _, r := range robots` loop
    maps,          \* the collector's `maps, err` of line 93
    batteryGauge,  \* neato_battery: device -> value
    areaGauge,     \* neato_area: device -> value
    stateGauge,    \* neato_state: set of label tuples whose value is 1
    passed,        \* history: the startup checks passed, in order
    passLog,       \* history: devices whose state was fetched in this pass
    fetched,       \* history: devices whose state was ever fetched
    sinceSleep     \* history: devices fetched since the last completed sleep

vars == <<flagToken, flagBots, pc, bots, botsErr, allRobots, robots, k,
          checkedIdx, registered, cpc, idx, maps, batteryGauge, areaGauge,
          stateGauge, passed, passLog, fetched, sinceSleep>>

mainVars == <<flagToken, flagBots, pc, bots, botsErr, allRobots, robots, k,
              checkedIdx, registered, passed>>

gaugeVars == <<batteryGauge, areaGauge, stateGauge>>

----------------------------------------------------------------------------
(* Bounds *)

MaxStrLen == 3      \* longest -b value drawn
MaxRoster == 2      \* largest roster the account returns

----------------------------------------------------------------------------
(* Values *)

Chars == {"0", "1", "2", ",", "-"}
Digits == {"0", "1", "2", "3", "4", "5", "6", "7", "8", "9"}
Strings == UNION {[1..n -> Chars] : n \in 0..MaxStrLen}
Tokens == {"", "t"}

Serial(i) == 10 * i
Roster(n) == [i \in 1..n |-> Serial(i)]
Devices == {Serial(i) : i \in 1..MaxRoster}

\* a gauge vector: label tuple -> value, for the label tuples set so far
EmptyGauge == [d \in {} |-> 0]
\* WithLabelValues(...).Set(v)
SetGauge(g, d, v) == [x \in DOMAIN g \cup {d} |-> IF x = d THEN v ELSE g[x]]
Charges == {40, 90}
Areas == {3, 7}
States == {"idle"}
Families == {"battery", "area", "state"}

NilBots == [isNil |-> TRUE, list |-> <<>>]
SomeBots(l) == [isNil |-> FALSE, list |-> l]
NoMaps == [kind |-> "none", area |-> 0]
MapsOutcomes ==
    {[kind |-> kd, area |-> 0] : kd \in {"err", "empty", "noarea"}}
    \cup {[kind |-> "area", area |-> a] : a \in Areas}

Range(s) == {s[i] : i \in 1..Len(s)}

----------------------------------------------------------------------------
(* strings.Split(s, ",") *)

RECURSIVE SplitFrom(_, _, _)
SplitFrom(s, i, cur) ==
    IF i > Len(s) THEN <<cur>>
    ELSE IF s[i] = "," THEN <<cur>> \o SplitFrom(s, i + 1, <<>>)
    ELSE SplitFrom(s, i + 1, Append(cur, s[i]))

Split(s) == SplitFrom(s, 1, <<>>)

(* strconv.ParseInt(p, 10, 64): an optional sign, then one or more digits *)

DigitVal(c) ==
    CASE c = "0" -> 0 [] c = "1" -> 1 [] c = "2" -> 2 [] c = "3" -> 3
      [] c = "4" -> 4 [] c = "5" -> 5 [] c = "6" -> 6 [] c = "7" -> 7
      [] c = "8" -> 8 [] c = "9" -> 9

RECURSIVE ParseUint(_, _)
ParseUint(p, acc) ==
    IF Len(p) = 0 THEN acc ELSE ParseUint(Tail(p), 10 * acc + DigitVal(Head(p)))

Signed(p) == Len(p) > 0 /\ Head(p) \in {"+", "-"}
Unsigned(p) == IF Signed(p) THEN Tail(p) ELSE p

\* The range error of bitSize 64 needs 19 digits; MaxStrLen stays far below.
ParseOk(p) ==
    /\ Len(Unsigned(p)) > 0
    /\ \A i \in 1..Len(Unsigned(p)) : Unsigned(p)[i] \in Digits

ParseInt(p) ==
    IF Signed(p) /\ Head(p) = "-"
    THEN 0 - ParseUint(Unsigned(p), 0)
    ELSE ParseUint(Unsigned(p), 0)

----------------------------------------------------------------------------
(* getBots *)

\* botMap after the loop of lines 121-130 (int(n) keeps an int64 on a 64-bit
\* build, the one modelled)
BotMap(parts) == {ParseInt(parts[i]) : i \in 1..Len(parts)}

HasZero(parts) == \E i \in 1..Len(parts) : ParseInt(parts[i]) = 0

\* the orders in which `for n := range botMap` may visit the keys
Orders(S) ==
    {f \in [1..Cardinality(S) -> S] :
        \A i, j \in 1..Cardinality(S) : i # j => f[i] # f[j]}

\* the comparator handed to sort.Slice on line 145: it compares the indices
Less(s, i, j) == i < j

Swap(s, i, j) == [s EXCEPT ![i] = s[j], ![j] = s[i]]

\* sort.Slice on at most 12 elements: insertion sort, indices 0-based in the
\* comparator as in the code
RECURSIVE InsertDown(_, _)
InsertDown(s, j) ==
    IF j > 1 /\ Less(s, j - 1, j - 2)
    THEN InsertDown(Swap(s, j, j - 1), j - 1)
    ELSE s

RECURSIVE InsertionSort(_, _)
InsertionSort(s, i) ==
    IF i > Len(s) THEN s ELSE InsertionSort(InsertDown(s, i), i + 1)

SortSlice(s) == InsertionSort(s, 2)

\* mutant: the zero test of line 132 off by one
ZeroMixed_OffByOne(parts) == HasZero(parts) /\ Cardinality(BotMap(parts)) > 2

ZeroMixed(parts) == HasZero(parts) /\ Cardinality(BotMap(parts)) > 1

\* getBots(s) when the map is visited in order `ord`: [err, bots]
getBots(s, ord) ==
    IF s = <<>> THEN [err |-> "none", bots |-> NilBots]
    ELSE LET parts == Split(s) IN
         IF \E i \in 1..Len(parts) : ~ParseOk(parts[i])
         THEN [err |-> "notdigit", bots |-> NilBots]
         ELSE IF ZeroMixed(parts)
         THEN [err |-> "zeromix", bots |-> NilBots]
         ELSE IF HasZero(parts) /\ Cardinality(BotMap(parts)) = 0
         THEN [err |-> "none", bots |-> NilBots]
         ELSE [err |-> "none", bots |-> SomeBots(SortSlice(ord))]

\* the map getBots ranges over, empty where it returns before line 142
KeysOf(s) ==
    IF s # <<>> /\ \A i \in 1..Len(Split(s)) : ParseOk(Split(s)[i])
    THEN BotMap(Split(s)) ELSE {}

----------------------------------------------------------------------------
(* main *)

AllPassed == <<"token", "bots", "roster", "bounds", "register">>

Init ==
    /\ flagToken \in Tokens
    /\ flagBots \in Strings
    /\ pc = "token"
    /\ bots = NilBots
    /\ botsErr = "none"
    /\ allRobots = <<>>
    /\ robots = <<>>
    /\ k = 1
    /\ checkedIdx = {}
    /\ registered = {}
    /\ cpc = "idle"
    /\ idx = 1
    /\ maps = NoMaps
    /\ batteryGauge = EmptyGauge
    /\ areaGauge = EmptyGauge
    /\ stateGauge = {}
    /\ passed = <<>>
    /\ passLog = <<>>
    /\ fetched = {}
    /\ sinceSleep = {}

collectorVars == <<cpc, idx, maps, batteryGauge, areaGauge, stateGauge,
                   passLog, fetched, sinceSleep>>

\* lines 152-154
CheckToken ==
    /\ pc = "token"
    /\ IF flagToken = ""
       THEN pc' = "exited" /\ passed' = passed
       ELSE pc' = "parse" /\ passed' = Append(passed, "token")
    /\ UNCHANGED <<flagToken, flagBots, bots, botsErr, allRobots, robots, k,
                   checkedIdx, registered>>
    /\ UNCHANGED collectorVars

\* lines 156-159
ParseBots ==
    /\ pc = "parse"
    /\ \E ord \in Orders(KeysOf(flagBots)) :
        LET r == getBots(flagBots, ord) IN
        /\ botsErr' = r.err
        /\ bots' = r.bots
        /\ IF r.err # "none"
           THEN pc' = "exited" /\ passed' = passed
           ELSE pc' = "roster" /\ passed' = Append(passed, "bots")
    /\ UNCHANGED <<flagToken, flagBots, allRobots, robots, k, checkedIdx,
                   registered>>
    /\ UNCHANGED collectorVars

\* lines 167-173: acc.Robots() fails, or returns a roster of n devices
FetchRoster ==
    /\ pc = "roster"
    /\ \/ /\ pc' = "exited"
          /\ UNCHANGED <<allRobots, passed>>
       \/ \E n \in 0..MaxRoster :
          /\ allRobots' = Roster(n)
          /\ IF n = 0
             THEN pc' = "exited" /\ passed' = passed
             ELSE pc' = "select" /\ passed' = Append(passed, "roster")
    /\ UNCHANGED <<flagToken, flagBots, bots, botsErr, robots, k, checkedIdx,
                   registered>>
    /\ UNCHANGED collectorVars

\* the test of line 182
OutOfBounds(n, all) == n > Len(all)

\* allRobots[i] of a Go slice: a run-time panic outside 0..len-1
InRange(i, all) == 0 <= i /\ i < Len(all)
At(all, i) == all[i + 1]

\* mutant: the selection taken as 0-based, allRobots[n] (wrapping at the end)
RobotFor_ZeroBased(all, n) == all[(n % Len(all)) + 1]

\* line 185: allRobots[n-1]
RobotFor(all, n) == At(all, n - 1)

\* lines 176-178: bots == nil
SelectAll ==
    /\ pc = "select"
    /\ bots.isNil
    /\ robots' = allRobots
    /\ pc' = "regBattery"
    /\ passed' = Append(passed, "bounds")
    /\ UNCHANGED <<flagToken, flagBots, bots, botsErr, allRobots, k,
                   checkedIdx, registered>>
    /\ UNCHANGED collectorVars

\* lines 181-186: one iteration of the loop over bots, or its end
SelectStep ==
    /\ pc = "select"
    /\ ~bots.isNil
    /\ IF k > Len(bots.list)
       THEN /\ pc' = "regBattery"
            /\ passed' = Append(passed, "bounds")
            /\ UNCHANGED <<robots, k, checkedIdx>>
       ELSE LET n == bots.list[k] IN
            IF OutOfBounds(n, allRobots)
            THEN /\ pc' = "exited"
                 /\ UNCHANGED <<robots, k, checkedIdx, passed>>
            ELSE /\ checkedIdx' = checkedIdx \cup {n}
                 /\ IF InRange(n - 1, allRobots)
                    THEN /\ robots' = Append(robots, RobotFor(allRobots, n))
                         /\ k' = k + 1
                         /\ pc' = pc
                    ELSE /\ pc' = "panic"
                         /\ UNCHANGED <<robots, k>>
                 /\ passed' = passed
    /\ UNCHANGED <<flagToken, flagBots, bots, botsErr, allRobots, registered>>
    /\ UNCHANGED collectorVars

\* mutant: a failed registration is logged and startup goes on
Register_IgnoringError(at, family, next) ==
    /\ pc = at
    /\ \/ registered' = registered \cup {family}
       \/ registered' = registered
    /\ pc' = next
    /\ passed' = IF next = "start" THEN Append(passed, "register") ELSE passed
    /\ UNCHANGED <<flagToken, flagBots, bots, botsErr, allRobots, robots, k,
                   checkedIdx>>
    /\ UNCHANGED collectorVars

\* lines 190-198: prometheus.Register of one family succeeds or fails
Register(at, family, next) ==
    /\ pc = at
    /\ \/ /\ registered' = registered \cup {family}
          /\ pc' = next
          /\ passed' = IF next = "start" THEN Append(passed, "register")
                       ELSE passed
       \/ /\ pc' = "exited"
          /\ UNCHANGED <<registered, passed>>
    /\ UNCHANGED <<flagToken, flagBots, bots, botsErr, allRobots, robots, k,
                   checkedIdx>>
    /\ UNCHANGED collectorVars

RegisterBattery == Register("regBattery", "battery", "regArea")
RegisterArea == Register("regArea", "area", "regState")
RegisterState == Register("regState", "state", "start")

\* where the range loop of line 54 stands once position i is reached
LoopAt(i, rs) == IF i > Len(rs) THEN "sleep" ELSE "state"

\* line 201: go collector(robots), then main goes on to serve
StartCollector ==
    /\ pc = "start"
    /\ pc' = "serve"
    /\ cpc' = LoopAt(1, robots)
    /\ idx' = 1
    /\ UNCHANGED <<flagToken, flagBots, bots, botsErr, allRobots, robots, k,
                   checkedIdx, registered, passed>>
    /\ UNCHANGED <<maps, batteryGauge, areaGauge, stateGauge, passLog,
                   fetched, sinceSleep>>

\* line 206: ListenAndServe returns (it cannot bind), log.Fatal exits
ServerFail ==
    /\ pc = "serve"
    /\ pc' = "exited"
    /\ UNCHANGED <<flagToken, flagBots, bots, botsErr, allRobots, robots, k,
                   checkedIdx, registered, passed>>
    /\ UNCHANGED collectorVars

----------------------------------------------------------------------------
(* collector *)

Running == pc = "serve"

\* what the collector does next after the `continue` of line 59
AfterFailSleep(i, rs) == [cpc |-> LoopAt(i + 1, rs), idx |-> i + 1]

\* mutant: the pass after the last device starts without the sleep of line 109
AfterDevice_NoSleep(i, rs) ==
    IF i + 1 > Len(rs) THEN [cpc |-> "state", idx |-> 1]
    ELSE [cpc |-> "state", idx |-> i + 1]

\* what the collector does next after the body of the range loop (line 107)
AfterDevice(i, rs) == [cpc |-> LoopAt(i + 1, rs), idx |-> i + 1]

\* mutant: no outer `for`, the collector returns after one pass
AfterCycleSleep_Return(rs) == [cpc |-> "returned", idx |-> 1]

\* what the collector does next after the sleep of line 109
AfterCycleSleep(rs) == [cpc |-> LoopAt(1, rs), idx |-> 1]

\* lines 73-90: the label tuple of the state gauge, reduced to the device,
\* the state name and the charge
StateLabels(d, s) == <<d, s.state, s.charge>>

\* lines 55-60: r.State() fails
StateFetchFail ==
    /\ Running /\ cpc = "state"
    /\ cpc' = "failsleep"
    /\ passLog' = Append(passLog, robots[idx])
    /\ fetched' = fetched \cup {robots[idx]}
    /\ sinceSleep' = sinceSleep \cup {robots[idx]}
    /\ UNCHANGED <<idx, maps, batteryGauge, areaGauge, stateGauge>>
    /\ UNCHANGED mainVars

\* lines 55, 61-90: r.State() succeeds, the battery and state gauges are set
StateFetchOk ==
    /\ Running /\ cpc = "state"
    /\ \E s \in [charge : Charges, state : States] :
        /\ batteryGauge' = SetGauge(batteryGauge, robots[idx], s.charge)
        /\ stateGauge' = stateGauge \cup {StateLabels(robots[idx], s)}
    /\ cpc' = "maps"
    /\ passLog' = Append(passLog, robots[idx])
    /\ fetched' = fetched \cup {robots[idx]}
    /\ sinceSleep' = sinceSleep \cup {robots[idx]}
    /\ UNCHANGED <<idx, maps, areaGauge>>
    /\ UNCHANGED mainVars

\* line 58: the sleep after a failed state fetch ends, then `continue`
FailSleep ==
    /\ Running /\ cpc = "failsleep"
    /\ cpc' = AfterFailSleep(idx, robots).cpc
    /\ idx' = AfterFailSleep(idx, robots).idx
    /\ sinceSleep' = {}
    /\ UNCHANGED <<maps, batteryGauge, areaGauge, stateGauge, passLog, fetched>>
    /\ UNCHANGED mainVars

\* line 93: r.Maps() returns an error, no map, a map without cleaned area,
\* or a map with one
MapsFetch ==
    /\ Running /\ cpc = "maps"
    /\ maps' \in MapsOutcomes
    /\ cpc' = "area"
    /\ UNCHANGED <<idx, batteryGauge, areaGauge, stateGauge, passLog, fetched,
                   sinceSleep>>
    /\ UNCHANGED mainVars

\* mutant: a device without cleaned area has its area entry zeroed
AreaAfter_ZeroWhenMissing(g, d, m) ==
    SetGauge(g, d, IF m.kind = "area" THEN m.area ELSE 0)

\* lines 94-106: the area gauge after the map step for device d
AreaAfter(g, d, m) == IF m.kind = "area" THEN SetGauge(g, d, m.area) ELSE g

\* lines 94-107: the area update, then the next device of the pass
AreaUpdate ==
    /\ Running /\ cpc = "area"
    /\ areaGauge' = AreaAfter(areaGauge, robots[idx], maps)
    /\ maps' = NoMaps
    /\ cpc' = AfterDevice(idx, robots).cpc
    /\ idx' = AfterDevice(idx, robots).idx
    /\ UNCHANGED <<batteryGauge, stateGauge, passLog, fetched, sinceSleep>>
    /\ UNCHANGED mainVars

\* line 109: the sleep between passes ends
CycleSleep ==
    /\ Running /\ cpc = "sleep"
    /\ cpc' = AfterCycleSleep(robots).cpc
    /\ idx' = AfterCycleSleep(robots).idx
    /\ passLog' = <<>>
    /\ sinceSleep' = {}
    /\ UNCHANGED <<maps, batteryGauge, areaGauge, stateGauge, fetched>>
    /\ UNCHANGED mainVars

Collector ==
    \/ StateFetchFail
    \/ StateFetchOk
    \/ FailSleep
    \/ MapsFetch
    \/ AreaUpdate
    \/ CycleSleep

Next ==
    \/ CheckToken
    \/ ParseBots
    \/ FetchRoster
    \/ SelectAll
    \/ SelectStep
    \/ RegisterBattery
    \/ RegisterArea
    \/ RegisterState
    \/ StartCollector
    \/ ServerFail
    \/ Collector

Spec == Init /\ [][Next]_vars

\* the collector goroutine is scheduled, and its fetches and sleeps return
LiveSpec == Init /\ [][Next]_vars /\ WF_vars(Collector)

----------------------------------------------------------------------------
(* Vocabulary of the properties *)

\* getBots has returned in main
Parsed == flagToken # "" /\ pc \notin {"token", "parse"}

Parts == Split(flagBots)
AllInts == flagBots # <<>> /\ \A i \in 1..Len(Parts) : ParseOk(Parts[i])
SomeZero == \E i \in 1..Len(Parts) : ParseInt(Parts[i]) = 0
SomeNonZero == \E i \in 1..Len(Parts) : ParseInt(Parts[i]) # 0
OnlyZeros == flagBots # <<>> /\ \A i \in 1..Len(Parts) : Parts[i] = <<"0">>

Ascending(l) == \A i \in 1..(Len(l) - 1) : l[i] < l[i + 1]

Started == cpc # "idle"
IsPrefix(a, b) == Len(a) <= Len(b) /\ a = SubSeq(b, 1, Len(a))

\* the roster devices at the 1-based positions the selection names
Selected ==
    IF flagBots = <<>> THEN Range(allRobots)
    ELSE {allRobots[n] : n \in {m \in KeysOf(flagBots) : m \in 1..Len(allRobots)}}

\* the positions of the collector: not started, or inside its loop
CollectorPositions == {"idle", "state", "failsleep", "maps", "area", "sleep"}

\* r.State() has just returned for the device at position i of robots
JustFetched(i) == cpc \in {"failsleep", "maps"} /\ idx = i

NoGaugeWritten ==
    /\ DOMAIN batteryGauge = {}
    /\ DOMAIN areaGauge = {}
    /\ stateGauge = {}

----------------------------------------------------------------------------
(* C1: after the sleep that follows a failed state fetch, the next state   *)
(* fetch is for the first device of the list: no later device of the list  *)
(* is fetched in the same pass.                                            *)
C1_FailureSkipsToNextCycle ==
    [][(cpc = "failsleep" /\ cpc' = "state") => idx' = 1]_vars

(* C2: for "0" and for every comma-separated list of "0" tokens getBots    *)
(* returns the nil list and no error.                                      *)
C2_ZerosMeanAll ==
    (Parsed /\ OnlyZeros) => (botsErr = "none" /\ bots.isNil)

(* C3: when every token parses and none is 0, getBots returns without      *)
(* error the distinct parsed integers in strictly ascending order.         *)
C3_SortedDistinct ==
    (Parsed /\ AllInts /\ ~SomeZero) =>
        /\ botsErr = "none"
        /\ ~bots.isNil
        /\ Range(bots.list) = BotMap(Parts)
        /\ Ascending(bots.list)

(* C4: every index that passes the bounds check of startup is a position   *)
(* 1..len(roster), and startup never indexes the roster outside it.        *)
C4_IndexWithinRoster ==
    /\ \A n \in checkedIdx : 1 <= n /\ n <= Len(allRobots)
    /\ pc # "panic"

(* C5: once started, the collector fetches only the roster devices at the  *)
(* selected positions (the whole roster for the empty selection), has      *)
(* fetched every one of them when a pass ends, and within a pass fetches   *)
(* them in the order of the configured list.                               *)
C5_PollsSelectedInOrder ==
    Started =>
        /\ Range(robots) = Selected
        /\ (flagBots = <<>> => robots = allRobots)
        /\ fetched \subseteq Selected
        /\ (cpc = "sleep" => fetched = Selected)
        /\ IsPrefix(passLog, robots)

C5_Witness ==
    /\ cpc = "sleep"
    /\ Len(robots) = 1
    /\ Len(allRobots) = 2
    /\ robots[1] = allRobots[2]
    /\ fetched = {allRobots[2]}

(* C6: the collector is started only after the token, selection, roster,   *)
(* bounds and registration checks passed in this order; a process in which *)
(* one of them has not passed stands at no later position, has fetched no  *)
(* device state and has written no gauge.                                  *)
C6_StartOnlyAfterChecks ==
    /\ IsPrefix(passed, AllPassed)
    /\ Started =>
        /\ passed = AllPassed
        /\ flagToken # ""
        /\ botsErr = "none"
        /\ Len(allRobots) > 0
        /\ \A i \in 1..Len(bots.list) : ~(bots.list[i] > Len(allRobots))
        /\ registered = Families
    /\ passed # AllPassed =>
        /\ ~Started
        /\ fetched = {}
        /\ NoGaugeWritten
    /\ pc = "parse" => passed = SubSeq(AllPassed, 1, 1)
    /\ pc = "roster" => passed = SubSeq(AllPassed, 1, 2)
    /\ pc = "select" => passed = SubSeq(AllPassed, 1, 3)
    /\ pc \in {"regBattery", "regArea", "regState"} =>
           passed = SubSeq(AllPassed, 1, 4)
    /\ pc \in {"start", "serve"} => passed = AllPassed

C6_Witness ==
    /\ pc = "serve" /\ Started
    /\ ~bots.isNil
    /\ passed = AllPassed
    /\ ~NoGaugeWritten

(* C7: a map step whose fetch failed, returned no map, or returned a map   *)
(* without cleaned area changes no gauge entry; one with a cleaned area    *)
(* changes only the area entry of that device; either way the pass goes on *)
(* with the next device, with no sleep in between.                         *)
C7_MapStepFrame ==
    [][/\ (cpc = "maps" /\ cpc' # "maps") =>
            /\ UNCHANGED gaugeVars
            /\ cpc' = "area" /\ idx' = idx
       /\ (cpc = "area" /\ cpc' # "area") =>
            /\ batteryGauge' = batteryGauge
            /\ stateGauge' = stateGauge
            /\ maps.kind \in {"err", "empty", "noarea"} =>
                   areaGauge' = areaGauge
            /\ maps.kind = "area" =>
                   /\ DOMAIN areaGauge' = DOMAIN areaGauge \cup {robots[idx]}
                   /\ areaGauge'[robots[idx]] = maps.area
                   /\ \A d \in DOMAIN areaGauge \ {robots[idx]} :
                          areaGauge'[d] = areaGauge[d]
            /\ idx < Len(robots) => (cpc' = "state" /\ idx' = idx + 1)
            /\ idx >= Len(robots) => cpc' = "sleep"
      ]_vars

C7_Witness ==
    /\ cpc = "area" /\ idx = 2
    /\ maps.kind = "empty"
    /\ passLog = <<robots[1], robots[2]>>
    /\ sinceSleep = {robots[1], robots[2]}
    /\ robots[2] \in DOMAIN batteryGauge
    /\ robots[2] \in DOMAIN areaGauge

(* C8: when every token parses, one is 0 and one is not, getBots returns   *)
(* an error and no list.                                                   *)
C8_ZeroMixedErrors ==
    (Parsed /\ AllInts /\ SomeZero /\ SomeNonZero) =>
        /\ botsErr # "none"
        /\ bots.isNil
        /\ pc = "exited"

C8_Witness ==
    /\ Parsed /\ AllInts /\ SomeZero /\ SomeNonZero
    /\ botsErr = "zeromix"

(* C9: the collector never leaves its loop, and while the process lives    *)
(* every configured device has its state fetched again and again.          *)
C9_RunsForever ==
    /\ [](cpc \in CollectorPositions)
    /\ \A i \in 1..MaxRoster :
        []((Started /\ i <= Len(robots)) => <>(pc = "exited" \/ JustFetched(i)))

C9_Witness ==
    /\ cpc = "state" /\ idx = 1
    /\ Len(robots) = 2
    /\ fetched = Range(robots)
    /\ sinceSleep = {}

(* C10: a device whose state is fetched has not been fetched since the     *)
(* last completed sleep.                                                   *)
C10_SleepBetweenFetches ==
    [][(cpc = "state" /\ cpc' \in {"failsleep", "maps"}) =>
           robots[idx] \notin sinceSleep]_vars

C10_Witness ==
    /\ JustFetched(1)
    /\ Len(robots) = 2
    /\ fetched = Range(robots)
    /\ sinceSleep = {robots[1]}

====
